---- MODULE Spec2Model ----
(***************************************************************************)
(* Model of the per-guild music coordinator of Discord-Music-Bot:         *)
(* src/commands/commands.js holds the command layer (lines 1-510) and the *)
(* subscription registry and MusicSubscription class (lines 511-779).     *)
(*                                                                         *)
(* One guild key is modelled.  The model follows the MusicSubscription    *)
(* most recently constructed for that key: its fields, the state of its   *)
(* voice connection and audio player, and the waits (entersState / wait   *)
(* promises) its handlers have pending.  Of the subscriptions constructed *)
(* before it, it follows the timed waits still pending and, while one of  *)
(* them has a production in flight, a player that is not Idle or a /play  *)
(* that looked it up and is yet to enqueue, its queue, player and         *)
(* production.  Every handler runs to its first await in one step; a      *)
(* pending await is a separate step.  A timed wait may end at any moment  *)
(* while it is pending.                                                    *)
(*                                                                         *)
(* Every handler is an async function whose promise nobody awaits, and    *)
(* src/client.js installs no unhandledRejection handler: an error thrown  *)
(* in a handler and not caught there ends the node process.                *)
(***************************************************************************)
EXTENDS Integers, Sequences, FiniteSets, TLC

\* ---------------------------------------------------------------- bounds
MaxTracks == 3
MaxBackoffs == 1
MaxOldWaits == 1
MaxEarlier == 1
MaxStarts == 2

\* ------------------------------------------------------ program constants
MaxRejoinAttempts == 5

Tracks == 1..MaxTracks

\* @discordjs/voice status names used by the handlers
IdleS == "Idle"
Buffering == "Buffering"
Playing == "Playing"
Paused == "Paused"
AutoPaused == "AutoPaused"

Signalling == "Signalling"
Connecting == "Connecting"
Ready == "Ready"
Disconnected == "Disconnected"
Destroyed == "Destroyed"

VARIABLES
    subscriptions,   \* the Map has an entry for the guild key (the subscription followed)
    inst,            \* a MusicSubscription has been constructed for the key
    destroyed,       \* this.destroyed
    queue,           \* this.queue
    queueLock,       \* this.queueLock
    wait,            \* this.wait
    readyLock,       \* this.readyLock (set while the 15s guard is pending)
    conn,            \* this.voiceConnection.state.status
    closeCode,       \* 4014 or 0: reason of the current Disconnected state
    rejoinAttempts,  \* this.voiceConnection.rejoinAttempts
    wasReady,        \* the connection has been Ready since construction
    player,          \* this.audioPlayer.state.status
    resource,        \* track of this.audioPlayer.state.resource (0: none)
    stopping,        \* the resource plays its silence padding: stop() was called on it
    errored,         \* tracks whose errored flag is set
    producing,       \* tracks whose createAudioResource() is awaited
    idleWaits,       \* pending entersState(audioPlayer, Playing, 30_000)
    connWait,        \* an entersState(voiceConnection, Connecting, 5_000) is pending
    readyGuards,     \* pending entersState(voiceConnection, Ready, 15_000)
    backoffs,        \* pending wait((rejoinAttempts + 1) * 5_000)
    extra,           \* this.queue["0.5"], a property of the array beside its entries
    exited,          \* the node process has exited on an unhandled promise rejection
    oldIdleWaits,    \* pending 30s waits of subscriptions constructed earlier for the key
    oldConnWaits,    \* a 5s or 15s wait of an earlier subscription is pending
    earlier,         \* the earlier subscriptions that produce or hold a track
    nextId,          \* next fresh track id
    \* ---- history (observations, never read by the modelled code)
    popped,          \* tracks taken off the queue by processQueue, in order
    played,          \* tracks handed to audioPlayer.play, in order
    onStartN,        \* calls of onStart for the player's resource
    onFinishN,       \* per track: calls of onFinish
    onErrorN,        \* per track: calls of onError
    inactivityN,     \* inactivity notifications sent to lastTextChannel
    oldInactivityN,  \* those sent by earlier subscriptions since this one was made
    stopRuns,        \* times the body of stop() has run
    destroyedBy,     \* which handler called voiceConnection.destroy()
    endedOk,         \* tracks whose playback attempt ended without an error
    endedErr,        \* tracks whose playback attempt ended by a stream error
    prodFailed       \* tracks whose createAudioResource() failed

vars == <<subscriptions, inst, destroyed, queue, queueLock, wait, readyLock, conn,
          closeCode, rejoinAttempts, wasReady, player, resource, stopping, errored,
          producing, idleWaits, connWait, readyGuards, backoffs, extra, exited,
          oldIdleWaits, oldConnWaits, earlier, nextId, popped, played,
          onStartN, onFinishN, onErrorN, inactivityN, oldInactivityN, stopRuns,
          destroyedBy, endedOk, endedErr, prodFailed>>

\* The current state as one record: the handlers below are functions on it.
Cur ==
    [subscriptions |-> subscriptions, inst |-> inst, destroyed |-> destroyed,
     queue |-> queue, queueLock |-> queueLock, wait |-> wait,
     readyLock |-> readyLock, conn |-> conn, closeCode |-> closeCode,
     rejoinAttempts |-> rejoinAttempts, wasReady |-> wasReady, player |-> player,
     resource |-> resource, stopping |-> stopping, errored |-> errored,
     producing |-> producing, earlier |-> earlier, oldInactivityN |-> oldInactivityN,
     idleWaits |-> idleWaits, connWait |-> connWait, readyGuards |-> readyGuards,
     backoffs |-> backoffs, extra |-> extra, exited |-> exited,
     oldIdleWaits |-> oldIdleWaits, oldConnWaits |-> oldConnWaits,
     nextId |-> nextId, popped |-> popped, played |-> played,
     onStartN |-> onStartN,
     onFinishN |-> onFinishN, onErrorN |-> onErrorN, inactivityN |-> inactivityN,
     stopRuns |-> stopRuns, destroyedBy |-> destroyedBy, endedOk |-> endedOk, endedErr |-> endedErr,
     prodFailed |-> prodFailed, held |-> FALSE]

\* The step of a handler that leaves the state s.  No handler runs in a process that
\* has exited.
Install(s) ==
    /\ ~exited
    /\ subscriptions' = s.subscriptions
    /\ inst' = s.inst
    /\ destroyed' = s.destroyed
    /\ queue' = s.queue
    /\ queueLock' = s.queueLock
    /\ wait' = s.wait
    /\ readyLock' = s.readyLock
    /\ conn' = s.conn
    /\ closeCode' = s.closeCode
    /\ rejoinAttempts' = s.rejoinAttempts
    /\ wasReady' = s.wasReady
    /\ player' = s.player
    /\ resource' = s.resource
    /\ stopping' = s.stopping
    /\ errored' = s.errored
    /\ producing' = s.producing
    /\ idleWaits' = s.idleWaits
    /\ connWait' = s.connWait
    /\ readyGuards' = s.readyGuards
    /\ backoffs' = s.backoffs
    /\ extra' = s.extra
    /\ exited' = s.exited
    /\ oldIdleWaits' = s.oldIdleWaits
    /\ oldConnWaits' = s.oldConnWaits
    /\ earlier' = s.earlier
    /\ nextId' = s.nextId
    /\ popped' = s.popped
    /\ played' = s.played
    /\ onStartN' = s.onStartN
    /\ onFinishN' = s.onFinishN
    /\ onErrorN' = s.onErrorN
    /\ inactivityN' = s.inactivityN
    /\ oldInactivityN' = s.oldInactivityN
    /\ stopRuns' = s.stopRuns
    /\ destroyedBy' = s.destroyedBy
    /\ endedOk' = s.endedOk
    /\ endedErr' = s.endedErr
    /\ prodFailed' = s.prodFailed

\* new MusicSubscription(joinVoiceChannel(...), textChannel, guildId), before the
\* constructor's handlers have run: the fields it sets, a fresh connection and a
\* fresh player (Idle).  queueLock, readyLock and wait are not assigned by the
\* constructor: undefined, which every test of them reads as false.
MusicSubscription ==
    [subscriptions |-> FALSE, inst |-> TRUE, destroyed |-> FALSE,
     queue |-> <<>>, queueLock |-> FALSE, wait |-> FALSE,
     readyLock |-> FALSE, conn |-> Signalling, closeCode |-> 0,
     rejoinAttempts |-> 0, wasReady |-> FALSE, player |-> IdleS,
     resource |-> 0, stopping |-> FALSE, errored |-> {}, producing |-> {},
     earlier |-> <<>>, oldInactivityN |-> 0,
     idleWaits |-> 0, connWait |-> FALSE, readyGuards |-> 0, backoffs |-> 0,
     extra |-> 0, exited |-> FALSE, oldIdleWaits |-> 0, oldConnWaits |-> FALSE,
     nextId |-> 1, popped |-> <<>>, played |-> <<>>,
     onStartN |-> 0,
     onFinishN |-> [t \in Tracks |-> 0], onErrorN |-> [t \in Tracks |-> 0],
     inactivityN |-> 0, stopRuns |-> 0, destroyedBy |-> "none",
     endedOk |-> {}, endedErr |-> {}, prodFailed |-> {}, held |-> FALSE]

\* ---------------------------------------------------------------------- Track
\* The lifecycle callbacks the coordinator invokes on a track.
\* metadata.onStart(), the track t being the player's resource: one more call.
TrackOnStart(s, t) ==
    [s EXCEPT !.onStartN = @ + 1]

TrackOnFinish(s, t) ==
    [s EXCEPT !.onFinishN[t] = @ + 1]

TrackOnError(s, t) ==
    [s EXCEPT !.onErrorN[t] = @ + 1]

\* createAudioResource() is called: the track's errored flag is reset.
TrackCreateAudioResource(s, t) ==
    [s EXCEPT !.errored = @ \ {t}]

\* The track's stream fails while it is the player's resource: the track marks
\* itself errored.
TrackMarkErrored(s, t) ==
    [s EXCEPT !.errored = @ \cup {t}]

\* --------------------------------------------------------------- processQueue
\* processQueue without the test of queueLock
processQueue_unlocked(s) ==
    LET s1 == [s EXCEPT !.wait = FALSE]
    IN  IF s1.player # IdleS \/ Len(s1.queue) = 0
        THEN s1
        ELSE LET nextTrack == Head(s1.queue)
                 s2 == [s1 EXCEPT !.queueLock = TRUE, !.queue = Tail(@)]
             IN  IF nextTrack = 0
                 THEN [s2 EXCEPT !.exited = TRUE]
                 ELSE TrackCreateAudioResource(
                          [s2 EXCEPT !.popped = Append(@, nextTrack),
                                     !.producing = @ \cup {nextTrack}],
                          nextTrack)

\* processQueue with queue.pop() in place of queue.shift()
processQueue_pop(s) ==
    LET s1 == [s EXCEPT !.wait = FALSE]
    IN  IF s1.queueLock \/ s1.player # IdleS \/ Len(s1.queue) = 0
        THEN s1
        ELSE LET nextTrack == s1.queue[Len(s1.queue)]
                 s2 == [s1 EXCEPT !.queueLock = TRUE,
                                  !.queue = SubSeq(@, 1, Len(@) - 1)]
             IN  IF nextTrack = 0
                 THEN [s2 EXCEPT !.exited = TRUE]
                 ELSE TrackCreateAudioResource(
                          [s2 EXCEPT !.popped = Append(@, nextTrack),
                                     !.producing = @ \cup {nextTrack}],
                          nextTrack)

\* processQueue without the test of the player's status
processQueue_busy(s) ==
    LET s1 == [s EXCEPT !.wait = FALSE]
    IN  IF s1.queueLock \/ Len(s1.queue) = 0
        THEN s1
        ELSE LET nextTrack == Head(s1.queue)
                 s2 == [s1 EXCEPT !.queueLock = TRUE, !.queue = Tail(@)]
             IN  IF nextTrack = 0
                 THEN [s2 EXCEPT !.exited = TRUE]
                 ELSE TrackCreateAudioResource(
                          [s2 EXCEPT !.popped = Append(@, nextTrack),
                                     !.producing = @ \cup {nextTrack}],
                          nextTrack)

\* processQueue without the reset of the wait flag
processQueue_keepsWait(s) ==
    IF s.queueLock \/ s.player # IdleS \/ Len(s.queue) = 0
    THEN s
    ELSE LET nextTrack == Head(s.queue)
             s2 == [s EXCEPT !.queueLock = TRUE, !.queue = Tail(@)]
         IN  IF nextTrack = 0
             THEN [s2 EXCEPT !.exited = TRUE]
             ELSE TrackCreateAudioResource(
                      [s2 EXCEPT !.popped = Append(@, nextTrack),
                                 !.producing = @ \cup {nextTrack}],
                      nextTrack)

\* The synchronous part of processQueue(): to the await of createAudioResource().
processQueue(s) ==
    LET s1 == [s EXCEPT !.wait = FALSE]
    IN  IF s1.queueLock \/ s1.player # IdleS \/ Len(s1.queue) = 0
        THEN s1
        ELSE LET nextTrack == Head(s1.queue)
                 s2 == [s1 EXCEPT !.queueLock = TRUE, !.queue = Tail(@)]
             IN  IF nextTrack = 0
                 \* undefined.createAudioResource() throws in the try block and
                 \* undefined.onError throws in the catch block: the lock stays set
                 \* and the promise of processQueue() is rejected.  No caller handles
                 \* the rejection: the process exits.
                 THEN [s2 EXCEPT !.exited = TRUE]
                 ELSE TrackCreateAudioResource(
                          [s2 EXCEPT !.popped = Append(@, nextTrack),
                                     !.producing = @ \cup {nextTrack}],
                          nextTrack)

\* ---------------------------------------------------------------- audioPlayer
\* the stateChange handler without the test of the track's errored flag
PlayerStateChange_noErrored(s, oldStatus, oldResource, newStatus) ==
    IF newStatus = IdleS /\ oldStatus # IdleS
    THEN LET s1 == TrackOnFinish(s, oldResource)
             s2 == IF ~s1.wait THEN processQueue(s1) ELSE s1
         IN  [s2 EXCEPT !.idleWaits = @ + 1]
    ELSE IF newStatus = Playing
         THEN TrackOnStart(s, s.resource)
         ELSE s

\* audioPlayer.on('stateChange', ...): the handler to its first await.
PlayerStateChange(s, oldStatus, oldResource, newStatus) ==
    IF newStatus = IdleS /\ oldStatus # IdleS
    THEN LET s1 == IF oldResource \notin s.errored
                   THEN TrackOnFinish(s, oldResource)
                   ELSE s
             s2 == IF ~s1.wait THEN processQueue(s1) ELSE s1
         IN  [s2 EXCEPT !.idleWaits = @ + 1]
    ELSE IF newStatus = Playing
         THEN TrackOnStart(s, s.resource)
         ELSE s

\* The player's state setter: the new state is stored, a pending
\* entersState(audioPlayer, Playing) is settled when Playing is entered, and the
\* stateChange handler runs.  The silence padding belongs to the resource.
PlayerSetState(s, newStatus, newResource) ==
    LET s1 == [s EXCEPT !.player = newStatus,
                        !.resource = newResource,
                        !.stopping = IF newStatus \in {IdleS, Buffering} THEN FALSE ELSE @,
                        !.idleWaits = IF newStatus = Playing /\ s.player # Playing
                                      THEN 0 ELSE @,
                        !.onStartN = IF newStatus \in {IdleS, Buffering} THEN 0 ELSE @]
    IN  PlayerStateChange(s1, s.player, s.resource, newStatus)

\* audioPlayer.stop(true)
AudioPlayerStop(s) ==
    IF s.player = IdleS THEN s ELSE PlayerSetState(s, IdleS, 0)

\* audioPlayer.stop() with force = false: nothing on an Idle player; else the
\* resource is told to play its silence padding and the call returns.  The player
\* changes state later, when the padding has been read: frames are read while the
\* player is Playing and not while it is Paused or AutoPaused.
AudioPlayerStopUnforced(s) ==
    IF s.player = IdleS THEN s ELSE [s EXCEPT !.stopping = TRUE]

\* audioPlayer.pause(): pauses a Playing player and does nothing in any other state
AudioPlayerPause(s) ==
    IF s.player = Playing THEN PlayerSetState(s, Paused, s.resource) ELSE s

\* audioPlayer.play(resource)
AudioPlayerPlay(s, t) ==
    PlayerSetState([s EXCEPT !.played = Append(@, t)], Buffering, t)

\* ------------------------------------------------- stop and the voice connection
RECURSIVE stop(_)
RECURSIVE ConnStateChange(_, _)

\* The connection's state setter: stores the state, resets rejoinAttempts on Ready,
\* settles the pending entersState promises the new status satisfies (the guard's
\* finally block clears readyLock), and runs the stateChange handler.  A destroyed
\* connection never changes again: rejoin() returns false on it, so the backoff waits
\* still pending have no effect and are dropped.  A 5s or 15s wait stays pending.
ConnSetState(s, newStatus, code) ==
    LET s1 == [s EXCEPT !.conn = newStatus,
                        !.closeCode = code,
                        !.rejoinAttempts = IF newStatus = Ready THEN 0 ELSE @,
                        !.wasReady = @ \/ newStatus = Ready,
                        !.readyLock = IF newStatus = Ready THEN FALSE ELSE @,
                        !.readyGuards = IF newStatus = Ready THEN 0 ELSE @,
                        !.connWait = IF newStatus = Connecting THEN FALSE ELSE @,
                        !.backoffs = IF newStatus = Destroyed THEN 0 ELSE @]
    IN  ConnStateChange(s1, newStatus)

\* voiceConnection.destroy().  On a destroyed connection it throws: every call is
\* made in a handler whose promise nothing handles, so that the process exits.
ConnDestroy(s, by) ==
    IF s.conn = Destroyed
    THEN [s EXCEPT !.exited = TRUE]
    ELSE ConnSetState([s EXCEPT !.destroyedBy = by], Destroyed, 0)

\* the stateChange handler without its Destroyed branch
ConnStateChange_noTeardown(s, newStatus) ==
    IF newStatus = Disconnected
    THEN IF s.closeCode = 4014
         THEN [s EXCEPT !.connWait = TRUE]
         ELSE IF s.rejoinAttempts < MaxRejoinAttempts
              THEN [s EXCEPT !.backoffs = @ + 1]
              ELSE ConnDestroy(s, "exhausted")
    ELSE IF ~s.readyLock /\ newStatus \in {Connecting, Signalling}
         THEN [s EXCEPT !.readyLock = TRUE, !.readyGuards = @ + 1]
         ELSE s

\* the stateChange handler with rejoinAttempts <= 5 in place of rejoinAttempts < 5
ConnStateChange_offByOne(s, newStatus) ==
    IF newStatus = Disconnected
    THEN IF s.closeCode = 4014
         THEN [s EXCEPT !.connWait = TRUE]
         ELSE IF s.rejoinAttempts <= MaxRejoinAttempts
              THEN [s EXCEPT !.backoffs = @ + 1]
              ELSE ConnDestroy(s, "exhausted")
    ELSE IF newStatus = Destroyed
         THEN stop(s)
         ELSE IF ~s.readyLock /\ newStatus \in {Connecting, Signalling}
              THEN [s EXCEPT !.readyLock = TRUE, !.readyGuards = @ + 1]
              ELSE s

\* the stateChange handler without the test of readyLock
ConnStateChange_noReadyLock(s, newStatus) ==
    IF newStatus = Disconnected
    THEN IF s.closeCode = 4014
         THEN [s EXCEPT !.connWait = TRUE]
         ELSE IF s.rejoinAttempts < MaxRejoinAttempts
              THEN [s EXCEPT !.backoffs = @ + 1]
              ELSE ConnDestroy(s, "exhausted")
    ELSE IF newStatus = Destroyed
         THEN stop(s)
         ELSE IF newStatus \in {Connecting, Signalling}
              THEN [s EXCEPT !.readyLock = TRUE, !.readyGuards = @ + 1]
              ELSE s

\* the stateChange handler with a backoff and rejoin for close code 4014 as well
ConnStateChange_rejoin4014(s, newStatus) ==
    IF newStatus = Disconnected
    THEN IF s.closeCode = 4014
         THEN [s EXCEPT !.connWait = TRUE, !.backoffs = @ + 1]
         ELSE IF s.rejoinAttempts < MaxRejoinAttempts
              THEN [s EXCEPT !.backoffs = @ + 1]
              ELSE ConnDestroy(s, "exhausted")
    ELSE IF newStatus = Destroyed
         THEN stop(s)
         ELSE IF ~s.readyLock /\ newStatus \in {Connecting, Signalling}
              THEN [s EXCEPT !.readyLock = TRUE, !.readyGuards = @ + 1]
              ELSE s

\* voiceConnection.on('stateChange', ...): the handler to its first await.
ConnStateChange(s, newStatus) ==
    IF newStatus = Disconnected
    THEN IF s.closeCode = 4014
         THEN [s EXCEPT !.connWait = TRUE]
         ELSE IF s.rejoinAttempts < MaxRejoinAttempts
              THEN [s EXCEPT !.backoffs = @ + 1]
              ELSE ConnDestroy(s, "exhausted")
    ELSE IF newStatus = Destroyed
         THEN stop(s)
         ELSE IF ~s.readyLock /\ newStatus \in {Connecting, Signalling}
              THEN [s EXCEPT !.readyLock = TRUE, !.readyGuards = @ + 1]
              ELSE s

\* stop() without subscriptions.delete(this.guildId)
stop_keepsEntry(s) ==
    LET s1 == [s EXCEPT !.queueLock = TRUE, !.queue = <<>>, !.extra = 0,
                        !.stopRuns = @ + 1]
        s2 == AudioPlayerStop(s1)
        s3 == [s2 EXCEPT !.destroyed = TRUE]
    IN  IF s3.conn # Destroyed THEN ConnDestroy(s3, "stop") ELSE s3

\* MusicSubscription.stop()
stop(s) ==
    LET s1 == [s EXCEPT !.queueLock = TRUE, !.queue = <<>>, !.extra = 0,
                        !.stopRuns = @ + 1]
        s2 == AudioPlayerStop(s1)
        s3 == [s2 EXCEPT !.destroyed = TRUE]
        s4 == IF s3.conn # Destroyed THEN ConnDestroy(s3, "stop") ELSE s3
    IN  [s4 EXCEPT !.subscriptions = FALSE]

\* What a call ends with when it throws a TypeError instead of returning a value.
TypeError == -1

\* nowPlaying(): this.audioPlayer.state.resource.metadata.  The Idle state has no
\* resource property: reading .metadata of undefined throws.
nowPlaying(s) ==
    IF s.player = IdleS THEN TypeError ELSE s.resource

\* voiceConnection.rejoin(): nothing on a destroyed connection; else the attempt is
\* counted unless the connection is Ready and the join payload is sent.  If the
\* adapter takes it, a connection that is not Ready goes Signalling and a Ready one
\* keeps its state; if the adapter is unavailable the connection goes Disconnected.
ConnRejoin(s, adapterOk) ==
    IF s.conn = Destroyed
    THEN s
    ELSE LET notReady == s.conn # Ready
             s1 == [s EXCEPT !.rejoinAttempts = IF notReady THEN @ + 1 ELSE @]
         IN  IF adapterOk
             THEN IF notReady THEN ConnSetState(s1, Signalling, 0) ELSE s1
             ELSE ConnSetState(s1, Disconnected, 0)

\* joinVoiceChannel() for a guild whose connection exists and is not destroyed: a
\* Disconnected connection is rejoined at once; any other one has the join payload
\* sent and goes Disconnected if the adapter is unavailable.
joinVoiceChannel(s, adapterOk) ==
    IF s.conn = Disconnected
    THEN ConnRejoin(s, adapterOk)
    ELSE IF adapterOk THEN s ELSE ConnSetState(s, Disconnected, 0)

\* commands.move.execute
moveExecute(s, adapterOk) ==
    IF ~s.subscriptions THEN s ELSE joinVoiceChannel(s, adapterOk)

\* ------------------------------------------- what tracks and the player do
\* await nextTrack.createAudioResource() resolves: play(resource), release the lock
createAudioResourceResolves(s, t) ==
    LET s1 == AudioPlayerPlay([s EXCEPT !.producing = @ \ {t}], t)
    IN  [s1 EXCEPT !.queueLock = FALSE]

\* await nextTrack.createAudioResource() rejects: the catch block
createAudioResourceRejects(s, t) ==
    LET s1 == TrackOnError([s EXCEPT !.producing = @ \ {t},
                                     !.prodFailed = @ \cup {t}], t)
    IN  processQueue([s1 EXCEPT !.queueLock = FALSE])

\* the resource's stream becomes readable: Buffering -> Playing
streamReadable(s) ==
    PlayerSetState(s, Playing, s.resource)

\* the resource has no frame left (its stream ended or closed, or its silence
\* padding was played): the player goes Idle
resourceEnds(s) ==
    PlayerSetState([s EXCEPT !.endedOk = @ \cup {s.resource}], IdleS, 0)

\* no Ready connection is subscribed: Playing -> AutoPaused
autoPause(s) ==
    PlayerSetState(s, AutoPaused, s.resource)

\* entersState(audioPlayer, Playing, 30_000) rejects: the catch block of the
\* player's handler sends the notification and destroys the connection unless it is
\* destroyed
idleWaitRejects(s) ==
    LET s1 == [s EXCEPT !.idleWaits = @ - 1, !.inactivityN = @ + 1]
    IN  IF s1.conn # Destroyed THEN ConnDestroy(s1, "idle") ELSE s1

\* the catch block for each of n waits that rejected together
RECURSIVE idleWaitsReject(_, _)
idleWaitsReject(s, n) ==
    IF n = 0 THEN s ELSE idleWaitsReject(idleWaitRejects(s), n - 1)

\* The resource's stream errors: the player emits 'error' and goes Idle.  The 'error'
\* listener calls the track's onError; entersState waits with events.once, which
\* rejects when the emitter emits 'error', so every 30s wait pending on the player
\* rejects.  The Idle transition runs the handler to its await (a new wait), then
\* the catch blocks of the rejected waits run.
streamError(s) ==
    LET t == s.resource
        s1 == TrackMarkErrored([s EXCEPT !.endedErr = @ \cup {t}], t)
        s2 == TrackOnError(s1, t)
    IN  idleWaitsReject(PlayerSetState(s2, IdleS, 0), s.idleWaits)

\* a track that is being retried sets the suppress flag
retrySuppress(s) ==
    [s EXCEPT !.wait = TRUE]

\* ------------------------------------------------------------------- registry
\* A subscription that is left behind unregistered goes on while it has a production
\* in flight or its player holds a resource.
Active(s) ==
    s.producing # {} \/ s.player # IdleS

\* What is followed of a subscription left behind: the fields its player's handler,
\* processQueue and the enqueue methods work on, and whether any /play, /next or
\* /now that looked it up at line 65 has yet to enqueue its track (held).  Its
\* connection is destroyed.
LeftBehind(s) ==
    [MusicSubscription EXCEPT !.conn = Destroyed, !.destroyed = TRUE,
                              !.queue = s.queue, !.extra = s.extra,
                              !.queueLock = s.queueLock, !.wait = s.wait,
                              !.player = s.player, !.resource = s.resource,
                              !.stopping = s.stopping, !.errored = s.errored,
                              !.producing = s.producing, !.idleWaits = s.idleWaits,
                              !.wasReady = s.wasReady, !.nextId = s.nextId,
                              !.held = s.held]

\* An earlier subscription is followed while it produces or holds a track or a
\* command holds it.
Followed(s) ==
    Active(s) \/ s.held

\* The constructor, run while the subscription s made earlier for the key (if any)
\* is unregistered.  joinVoiceChannel() makes a connection that is Signalling, or
\* Disconnected when the adapter cannot send the join payload.  The last statement,
\* voiceConnection.subscribe(audioPlayer), assigns the connection's state, and every
\* assignment emits stateChange: the handler registered above runs for the status
\* the connection has.  The waits the earlier subscription has pending stay pending,
\* and so does its production or the resource its player holds.
constructor(s, adapterOk) ==
    LET status == IF adapterOk THEN Signalling ELSE Disconnected
        fresh == [MusicSubscription EXCEPT
                      !.conn = status,
                      !.oldIdleWaits = s.oldIdleWaits + s.idleWaits,
                      !.oldConnWaits = s.oldConnWaits \/ s.connWait \/ s.readyGuards > 0,
                      !.earlier = s.earlier \o (IF s.inst /\ Followed(s)
                                                THEN <<LeftBehind(s)>> ELSE <<>>)]
    IN  ConnStateChange(fresh, status)

\* getOrCreateSubscription without the lookup: a subscription is always constructed
getOrCreateSubscription_always(s, adapterOk) ==
    [st |-> [constructor(s, adapterOk) EXCEPT !.subscriptions = TRUE],
     constructed |-> TRUE]

\* getOrCreateSubscription: the state after the call and the instance returned.
getOrCreateSubscription(s, adapterOk) ==
    IF s.subscriptions
    THEN [st |-> s, constructed |-> FALSE]
    ELSE [st |-> [constructor(s, adapterOk) EXCEPT !.subscriptions = TRUE],
          constructed |-> TRUE]

\* ------------------------------------------------------------- queue operations
\* A queue entry is a track id, or 0 for the undefined a hole of the array reads as.
Undefined == 0

Max2(a, b) == IF a >= b THEN a ELSE b

\* this.queue[index] of a JavaScript array: undefined beyond its length
At(q, index) ==
    IF index >= 0 /\ index < Len(q) THEN q[index + 1] ELSE Undefined

\* swap(index1, index2) on the array: a write at an index >= length grows the array
swap(q, index1, index2) ==
    LET n == Max2(Len(q), Max2(index1, index2) + 1)
    IN  [k \in 1..n |-> IF k - 1 = index2 THEN At(q, index1)
                        ELSE IF k - 1 = index1 THEN At(q, index2)
                        ELSE At(q, k - 1)]

\* the number of undefined entries of the array
Holes(q) ==
    Cardinality({k \in 1..Len(q) : q[k] = Undefined})

\* The values Math.floor(Math.random() * currentIndex) can take, one per round.
ShuffleChoices(n) ==
    {r \in [1..n -> 0..(n - 1)] : \A k \in 1..n : r[k] < k}

\* shuffle(): the loop, from currentIndex down to 0, with the random indices r
\* the loop with the random index drawn after currentIndex is decremented
RECURSIVE shuffleLoop_drawAfter(_, _, _)
shuffleLoop_drawAfter(q, r, currentIndex) ==
    IF currentIndex = 0
    THEN q
    ELSE shuffleLoop_drawAfter(
             swap(q, currentIndex - 1,
                  IF currentIndex = 1 THEN 0 ELSE r[currentIndex] % (currentIndex - 1)),
             r, currentIndex - 1)

RECURSIVE shuffleLoop(_, _, _)
shuffleLoop(q, r, currentIndex) ==
    IF currentIndex = 0
    THEN q
    ELSE shuffleLoop(swap(q, currentIndex - 1, r[currentIndex]), r, currentIndex - 1)

shuffle(q, r) ==
    shuffleLoop(q, r, Len(q))

enqueue(s, t) ==
    processQueue([s EXCEPT !.queue = Append(@, t)])

\* enqueueNext without the swap: the track stays at the back
enqueueNext_append(s, t) ==
    processQueue([s EXCEPT !.queue = Append(@, t)])

\* enqueueNext with an insertion at the front: every queued track moves back by one
enqueueNext_unshift(s, t) ==
    processQueue([s EXCEPT !.queue = <<t>> \o @])

enqueueNext(s, t) ==
    LET q == Append(s.queue, t)
    IN  processQueue([s EXCEPT !.queue = swap(q, 0, Len(q) - 1)])

\* bulkEnqueue(tracks) with autoShuffle = true (the only call passes one argument)
bulkEnqueue(s, tracks, r) ==
    processQueue([s EXCEPT !.queue = shuffle(s.queue \o tracks, r)])

\* this.queue = []: a new array, without the properties the old one had
clear(s) ==
    [s EXCEPT !.queue = <<>>, !.extra = 0]

\* What getString(name) gives for an option of /swap or /queue: null when the option
\* is omitted (none is required), else a string that Number() reads as NaN or as a
\* number.  A number is kept in halves: twice = 2 * k for the integer k, and
\* twice = 1 for 0.5, a number that is no array index.
Omitted == [kind |-> "null", twice |-> 0]

NotANumber == [kind |-> "NaN", twice |-> 0]

Index(k) == [kind |-> "number", twice |-> 2 * k]

Half == [kind |-> "number", twice |-> 1]

\* commands.play.execute without the song option: a reply without a change unless the
\* player is Paused, else audioPlayer.pause()
playExecuteNoSong(s) ==
    IF ~s.subscriptions THEN s
    ELSE IF s.player # Paused THEN s
    ELSE AudioPlayerPause(s)

\* commands.play.execute to its first await, for a member in a voice channel: with a
\* song the subscription is looked up or constructed (the track is queued after the
\* awaits), without one the branch above runs.  /next and /now call it.
playExecute(s, song, adapterOk) ==
    IF song THEN getOrCreateSubscription(s, adapterOk).st ELSE playExecuteNoSong(s)

\* commands.shuffle.execute, with the values r Math.random gives
shuffleExecute(s, r) ==
    IF ~s.subscriptions THEN s ELSE [s EXCEPT !.queue = shuffle(@, r)]

\* The execute function stored under the key skip: the object literal defines the key
\* twice and the later definition, whose builder is named 'stop', replaces the first;
\* both have the same body.  audioPlayer.stop() is called without force.
skipExecute(s) ==
    IF ~s.subscriptions THEN s
    ELSE IF s.player \in {IdleS, Buffering} THEN s
    ELSE AudioPlayerStopUnforced(s)

pauseExecute(s) ==
    IF ~s.subscriptions THEN s
    ELSE IF s.player = Paused THEN s
    ELSE AudioPlayerPause(s)

clearExecute(s) ==
    IF ~s.subscriptions THEN s ELSE clear(s)

Min2(a, b) == IF a <= b THEN a ELSE b

\* q.slice(start, end): the entries of q from start up to, not including, end; a
\* negative number counts from the end of the array
slice(q, start, end) ==
    LET from == IF start < 0 THEN Max2(Len(q) + start, 0) ELSE Min2(start, Len(q))
        to == IF end < 0 THEN Max2(Len(q) + end, 0) ELSE Min2(end, Len(q))
    IN  [k \in 1..Max2(to - from, 0) |-> q[from + k]]

\* commands.queue.execute: a reply without a change.  page is Number() of the option,
\* 0 when that is 0 or NaN (null reads as 0), and the highest page when it is
\* greater; the reply is built from the titles of the tracks of
\* queue.slice(page * 10, end).  Reading the title of an undefined entry throws, the
\* promise of execute() and of the interactionCreate listener is rejected and the
\* process exits.
queueExecute(s, option) ==
    IF ~s.subscriptions THEN s
    ELSE IF Len(s.queue) = 0 THEN s
    ELSE LET resultsPerPage == 10
             given == IF option.kind = "number" THEN option.twice ELSE 0
             highestPage == (Len(s.queue) + resultsPerPage - 1) \div resultsPerPage - 1
             twice == IF given > 2 * highestPage THEN 2 * highestPage ELSE given
             start == (twice * resultsPerPage) \div 2
             end == Min2(start + resultsPerPage, Len(s.queue))
             tracks == slice(s.queue, start, end)
         IN  IF Holes(tracks) > 0 THEN [s EXCEPT !.exited = TRUE] ELSE s

\* The keys of the commands object.
CommandKeys ==
    {"play", "next", "now", "pause", "shuffle", "clear", "queue", "swap", "skip", "move"}

\* this.queue[index] = value: a write at an index >= length grows the array
Put(q, index, value) ==
    [k \in 1..Max2(Len(q), index + 1) |-> IF k - 1 = index THEN value ELSE At(q, k - 1)]

\* this.queue[n] for a number n given in halves: the entry at an index, the property
\* of the array named by any other number
Read(s, twice) ==
    IF twice % 2 = 0 THEN At(s.queue, twice \div 2) ELSE s.extra

\* this.queue[n] = value for a number n given in halves
Write(s, twice, value) ==
    IF twice % 2 = 0
    THEN [s EXCEPT !.queue = Put(@, twice \div 2, value)]
    ELSE [s EXCEPT !.extra = value]

\* swap(index1, index2) as the command calls it, with the numbers given in halves
swapNumbers(s, twice1, twice2) ==
    LET temporaryValue == Read(s, twice1)
    IN  Write(Write(s, twice1, Read(s, twice2)), twice2, temporaryValue)

\* commands.swap.execute: a reply without a change, a throw (null.trim() for an
\* omitted option; an index > length assigns to a const), or subscription.swap.
\* The throw rejects the promise of execute() and with it the promise of the
\* interactionCreate listener, which nothing handles: the process exits.
swapExecute(s, option1, option2) ==
    IF ~s.subscriptions THEN s
    ELSE IF Len(s.queue) < 2 THEN s
    ELSE IF option1.kind = "null" \/ option2.kind = "null" THEN [s EXCEPT !.exited = TRUE]
    ELSE IF option1.kind = "NaN" \/ option2.kind = "NaN" THEN s
    ELSE IF option1.twice > 2 * Len(s.queue) \/ option2.twice > 2 * Len(s.queue)
         THEN [s EXCEPT !.exited = TRUE]
    ELSE IF option1.twice = option2.twice THEN s
    ELSE IF option1.twice < 0 \/ option2.twice < 0 THEN s
    ELSE swapNumbers(s, option1.twice, option2.twice)

\* The names that are no key of the commands object and that it inherits from
\* Object.prototype: commands[name] is a function or, for __proto__, the prototype
\* object; neither has an execute property.
InheritedKeys ==
    {"constructor", "hasOwnProperty", "isPrototypeOf", "propertyIsEnumerable",
     "toLocaleString", "toString", "valueOf", "__proto__", "__defineGetter__",
     "__defineSetter__", "__lookupGetter__", "__lookupSetter__"}

\* A command interaction of a member in a voice channel: the command's name, its
\* options, whether the adapter can send a join payload, and the values Math.random
\* gives while the command runs.
Interaction(name) ==
    [commandName |-> name, song |-> FALSE, page |-> Omitted,
     index1 |-> Omitted, index2 |-> Omitted, adapterOk |-> TRUE,
     random |-> [k \in 1..(MaxTracks + 1) |-> 0]]

\* client.on('interactionCreate'): commands[commandName].execute(interaction), to
\* the first await of execute, if commands[commandName] is truthy, and nothing
\* otherwise.  For an inherited name the call of the undefined execute throws: the
\* listener's promise is rejected, nothing handles it and the process exits.
dispatch(s, interaction) ==
    LET commandName == interaction.commandName
    IN  IF commandName \in InheritedKeys THEN [s EXCEPT !.exited = TRUE]
        ELSE IF commandName \notin CommandKeys THEN s
        ELSE CASE commandName \in {"play", "next", "now"} ->
                      playExecute(s, interaction.song, interaction.adapterOk)
               [] commandName = "pause" -> pauseExecute(s)
               [] commandName = "shuffle" -> shuffleExecute(s, interaction.random)
               [] commandName = "clear" -> clearExecute(s)
               [] commandName = "queue" -> queueExecute(s, interaction.page)
               [] commandName = "swap" ->
                      swapExecute(s, interaction.index1, interaction.index2)
               [] commandName = "skip" -> skipExecute(s)
               [] commandName = "move" -> moveExecute(s, interaction.adapterOk)

\* ====================================================================== actions
\* No subscription has been constructed yet: the registry is empty.
NoSubscription ==
    [MusicSubscription EXCEPT !.inst = FALSE, !.conn = Destroyed]

Init ==
    LET s == NoSubscription
    IN  /\ subscriptions = s.subscriptions
        /\ inst = s.inst
        /\ destroyed = s.destroyed
        /\ queue = s.queue
        /\ queueLock = s.queueLock
        /\ wait = s.wait
        /\ readyLock = s.readyLock
        /\ conn = s.conn
        /\ closeCode = s.closeCode
        /\ rejoinAttempts = s.rejoinAttempts
        /\ wasReady = s.wasReady
        /\ player = s.player
        /\ resource = s.resource
        /\ stopping = s.stopping
        /\ errored = s.errored
        /\ producing = s.producing
        /\ idleWaits = s.idleWaits
        /\ connWait = s.connWait
        /\ readyGuards = s.readyGuards
        /\ backoffs = s.backoffs
        /\ extra = s.extra
        /\ exited = s.exited
        /\ oldIdleWaits = s.oldIdleWaits
        /\ oldConnWaits = s.oldConnWaits
        /\ earlier = s.earlier
        /\ nextId = s.nextId
        /\ popped = s.popped
        /\ played = s.played
        /\ onStartN = s.onStartN
        /\ onFinishN = s.onFinishN
        /\ onErrorN = s.onErrorN
        /\ inactivityN = s.inactivityN
        /\ oldInactivityN = s.oldInactivityN
        /\ stopRuns = s.stopRuns
        /\ destroyedBy = s.destroyedBy
        /\ endedOk = s.endedOk
        /\ endedErr = s.endedErr
        /\ prodFailed = s.prodFailed

\* The subscription has no timed wait pending, produces no track and holds none.
Quiet ==
    /\ idleWaits = 0 /\ ~connWait /\ readyGuards = 0
    /\ producing = {} /\ player = IdleS

\* /play <song>: getOrCreateSubscription(voiceChannel, textChannel), at a moment
\* when the key is registered or the subscription made earlier for it is quiet
GetOrCreate ==
    /\ subscriptions \/ Quiet
    /\ Install(getOrCreateSubscription(Cur, TRUE).st)

\* the same while the adapter cannot send the join payload
GetOrCreateNoAdapter ==
    /\ ~subscriptions /\ Quiet
    /\ backoffs < MaxBackoffs
    /\ Install(getOrCreateSubscription(Cur, FALSE).st)

\* the same while the subscription torn down before has timed waits pending, a
\* production in flight or a player that is not Idle, or while a command that
\* looked it up (line 65) awaits its track: execute keeps the subscription it got
\* and enqueues on it.  The model follows up to MaxOldWaits 30s waits of earlier
\* subscriptions and up to MaxEarlier earlier subscriptions that produce or hold a
\* track or are held by commands.
GetOrCreateEarly ==
    /\ ~subscriptions
    /\ \E holds \in BOOLEAN :
        /\ ~Quiet \/ holds
        /\ holds => inst /\ nextId <= MaxTracks
        /\ oldIdleWaits + idleWaits <= MaxOldWaits
        /\ Len(earlier) + (IF Active(Cur) \/ holds THEN 1 ELSE 0) <= MaxEarlier
        /\ \E adapterOk \in BOOLEAN :
            Install(getOrCreateSubscription([Cur EXCEPT !.held = holds], adapterOk).st)

\* the sequence q without its entry i
Without(q, i) ==
    [k \in 1..(Len(q) - 1) |-> IF k < i THEN q[k] ELSE q[k + 1]]

\* the 30s waits pending on the earlier subscriptions that are followed
RECURSIVE FollowedWaits(_)
FollowedWaits(q) ==
    IF q = <<>> THEN 0 ELSE Head(q).idleWaits + FollowedWaits(Tail(q))

\* A step of the earlier subscription i, which leaves it as r.  Its waits and its
\* notifications are counted with those of all earlier subscriptions, an error it
\* does not catch ends the process, and it is followed for as long as it produces or
\* holds a track or a command holds it.
EarlierInstall(i, r) ==
    LET waits == oldIdleWaits + r.idleWaits - earlier[i].idleWaits
    IN  /\ waits <= Max2(MaxOldWaits, oldIdleWaits)
        /\ Install([Cur EXCEPT
                        !.earlier = IF Followed(r) /\ ~r.exited
                                    THEN [@ EXCEPT ![i] = LeftBehind(r)]
                                    ELSE Without(@, i),
                        !.oldIdleWaits = waits,
                        !.oldInactivityN = @ + r.inactivityN,
                        !.exited = r.exited])

\* entersState(audioPlayer, Playing, 30_000) of an earlier subscription rejects: the
\* catch block sends the notification to that subscription's lastTextChannel; its
\* connection is destroyed already.
OldIdleTimeout ==
    \/ /\ oldIdleWaits > FollowedWaits(earlier)
       /\ Install([Cur EXCEPT !.oldIdleWaits = @ - 1, !.oldInactivityN = @ + 1])
    \/ \E i \in DOMAIN earlier :
           /\ earlier[i].idleWaits > 0
           /\ EarlierInstall(i, idleWaitRejects(earlier[i]))

\* createAudioResource() of an earlier subscription resolves: the continuation of its
\* processQueue hands the resource to its player
OldProductionSuccess ==
    \E i \in DOMAIN earlier : \E t \in earlier[i].producing :
        EarlierInstall(i, createAudioResourceResolves(earlier[i], t))

\* createAudioResource() of an earlier subscription rejects
OldProductionFailure ==
    \E i \in DOMAIN earlier : \E t \in earlier[i].producing :
        EarlierInstall(i, createAudioResourceRejects(earlier[i], t))

\* the player of an earlier subscription: Buffering -> Playing
OldBufferReady ==
    \E i \in DOMAIN earlier :
        /\ earlier[i].player = Buffering
        /\ EarlierInstall(i, streamReadable(earlier[i]))

\* the player of an earlier subscription: Buffering -> Idle
OldBufferFail ==
    \E i \in DOMAIN earlier :
        /\ earlier[i].player = Buffering
        /\ EarlierInstall(i, resourceEnds(earlier[i]))

\* the player of an earlier subscription: Playing -> Idle
OldTrackEnd ==
    \E i \in DOMAIN earlier :
        /\ earlier[i].player = Playing
        /\ EarlierInstall(i, resourceEnds(earlier[i]))

\* the player of an earlier subscription emits 'error' and goes Idle
OldStreamError ==
    \E i \in DOMAIN earlier :
        /\ earlier[i].player # IdleS
        /\ EarlierInstall(i, streamError(earlier[i]))

\* the player of an earlier subscription, whose connection is destroyed:
\* Playing -> AutoPaused
OldAutoPause ==
    \E i \in DOMAIN earlier :
        /\ earlier[i].player = Playing
        /\ EarlierInstall(i, autoPause(earlier[i]))

\* a track of an earlier subscription that is being retried sets the suppress flag
OldRetrySuppress ==
    \E i \in DOMAIN earlier :
        /\ earlier[i].player # IdleS /\ ~earlier[i].wait
        /\ EarlierInstall(i, retrySuppress(earlier[i]))

\* /play <song> that looked up an earlier subscription: enqueue(track) on it.  Other
\* commands may hold the subscription still.
OldEnqueue ==
    \E i \in DOMAIN earlier : \E others \in BOOLEAN :
        /\ earlier[i].held /\ earlier[i].wasReady
        /\ earlier[i].nextId <= MaxTracks
        /\ EarlierInstall(i, enqueue([earlier[i] EXCEPT !.nextId = @ + 1,
                                                        !.held = others],
                                     earlier[i].nextId))

\* /next <song> that looked up an earlier subscription: enqueueNext(track) on it
OldEnqueueNext ==
    \E i \in DOMAIN earlier : \E others \in BOOLEAN :
        /\ earlier[i].held /\ earlier[i].wasReady
        /\ earlier[i].nextId <= MaxTracks
        /\ EarlierInstall(i, enqueueNext([earlier[i] EXCEPT !.nextId = @ + 1,
                                                            !.held = others],
                                         earlier[i].nextId))

\* /now <song> that looked up an earlier subscription: enqueueNext(track) on it and
\* stop(true) on its player
OldNowCmd ==
    \E i \in DOMAIN earlier : \E others \in BOOLEAN :
        /\ earlier[i].held /\ earlier[i].wasReady
        /\ earlier[i].nextId <= MaxTracks
        /\ EarlierInstall(i, AudioPlayerStop(
                                 enqueueNext([earlier[i] EXCEPT !.nextId = @ + 1,
                                                                !.held = others],
                                             earlier[i].nextId)))

\* /play <spotify playlist> that looked up an earlier subscription:
\* bulkEnqueue(spotifyTracks) on it
OldBulkEnqueue ==
    \E i \in DOMAIN earlier : \E k \in 1..2 : \E others \in BOOLEAN :
        /\ earlier[i].held
        /\ earlier[i].nextId + k - 1 <= MaxTracks
        /\ LET e == earlier[i]
               tracks == [n \in 1..k |-> e.nextId + n - 1]
           IN  \E r \in ShuffleChoices(Len(e.queue) + k) :
                   EarlierInstall(i, bulkEnqueue([e EXCEPT !.nextId = @ + k,
                                                          !.held = others],
                                                 tracks, r))

\* a command that looked up an earlier subscription gets no track (Track.fromURL
\* or fromSearch gives none, or the playlist cannot be read) and returns
OldTrackNotFound ==
    \E i \in DOMAIN earlier : \E others \in BOOLEAN :
        /\ earlier[i].held
        /\ EarlierInstall(i, [earlier[i] EXCEPT !.held = others])

\* A 5s or 15s wait of an earlier subscription rejects.  The connection is destroyed:
\* the catch block of the 5s wait calls destroy(), which throws on it, and the catch
\* block of the 15s wait reads the undeclared name VoiceConnectdionStatus.  Either
\* error rejects the promise of the handler, which nothing handles: the process exits.
OldConnWaitTimeout ==
    /\ oldConnWaits
    /\ Install([Cur EXCEPT !.exited = TRUE])

\* /move, in a voice channel
MoveCmd ==
    /\ subscriptions
    /\ rejoinAttempts <= MaxRejoinAttempts
    /\ \E adapterOk \in BOOLEAN :
        /\ ~adapterOk => backoffs < MaxBackoffs
        /\ Install(moveExecute(Cur, adapterOk))

\* /play <song>, after ensureConnectionIsReady and Track.from...: enqueue(track) on
\* the subscription looked up at line 65, here the one made last, registered or not
\* (OldEnqueue: an earlier one)
Enqueue ==
    /\ inst /\ wasReady /\ nextId <= MaxTracks
    /\ Install(enqueue([Cur EXCEPT !.nextId = @ + 1], nextId))

\* /next <song>: enqueueNext(track) on the subscription made last (OldEnqueueNext:
\* on an earlier one)
EnqueueNext ==
    /\ inst /\ wasReady /\ nextId <= MaxTracks
    /\ Install(enqueueNext([Cur EXCEPT !.nextId = @ + 1], nextId))

\* /now <song>: enqueueNext(track); audioPlayer.stop(true), on the subscription made
\* last (OldNowCmd: on an earlier one)
NowCmd ==
    /\ inst /\ wasReady /\ nextId <= MaxTracks
    /\ Install(AudioPlayerStop(enqueueNext([Cur EXCEPT !.nextId = @ + 1], nextId)))

\* /play <spotify playlist>: bulkEnqueue(spotifyTracks) on the subscription made
\* last (OldBulkEnqueue: on an earlier one), not gated on Ready
\* (ensureConnectionIsReady is not awaited there)
BulkEnqueue ==
    /\ inst
    /\ \E k \in 1..2 :
        /\ nextId + k - 1 <= MaxTracks
        /\ LET tracks == [i \in 1..k |-> nextId + i - 1]
           IN  \E s \in {bulkEnqueue([Cur EXCEPT !.nextId = @ + k], tracks, r) :
                               r \in ShuffleChoices(Len(queue) + k)} :
                   Install(s)

\* /shuffle
ShuffleCmd ==
    /\ subscriptions
    /\ \E s \in {shuffleExecute(Cur, r) : r \in ShuffleChoices(Len(queue))} :
        Install(s)

\* /clear
ClearCmd ==
    /\ subscriptions
    /\ Install(clear(Cur))

\* The options a /swap is given: an index from 0 to one beyond the queue's length,
\* 0.5, a string that is no number, or none.
SwapOptions ==
    {Index(k) : k \in 0..(Len(queue) + 1)} \cup {Half, NotANumber, Omitted}

\* /swap index1 index2.  An index equal to the length, and 0.5, pass the command's
\* checks and can leave an undefined entry; the model follows queues with at most one
\* undefined entry.
SwapCmd ==
    \E s \in {swapExecute(Cur, option1, option2) :
                   option1 \in SwapOptions, option2 \in SwapOptions} :
        /\ Holes(s.queue) <= 1
        /\ Install(s)

\* The pages a /queue is given: none, a string that is no number, 0.5, -1, 0 or 1.
QueuePages ==
    {Omitted, NotANumber, Half, Index(0 - 1), Index(0), Index(1)}

\* /queue page
QueueCmd ==
    /\ subscriptions
    /\ \E s \in {queueExecute(Cur, page) : page \in QueuePages} :
        Install(s)

\* await nextTrack.createAudioResource() resolves: play, release the lock
ProductionSuccess ==
    \E t \in producing :
        Install(createAudioResourceResolves(Cur, t))

\* the catch block with the failed track put back at the front of the queue
ProductionFailure_requeue ==
    \E t \in producing :
        LET s1 == TrackOnError([Cur EXCEPT !.producing = @ \ {t},
                                           !.prodFailed = @ \cup {t},
                                           !.queue = <<t>> \o @], t)
        IN  Install(processQueue([s1 EXCEPT !.queueLock = FALSE]))

\* await nextTrack.createAudioResource() rejects: the catch block
ProductionFailure ==
    \E t \in producing :
        Install(createAudioResourceRejects(Cur, t))

\* the resource's stream becomes readable: Buffering -> Playing
BufferReady ==
    /\ player = Buffering
    /\ Install(streamReadable(Cur))

\* the resource's stream ends or closes before it was readable: Buffering -> Idle
BufferFail ==
    /\ player = Buffering
    /\ Install(resourceEnds(Cur))

\* the resource is played to its end: Playing -> Idle
TrackEnd ==
    /\ player = Playing
    /\ Install(resourceEnds(Cur))

\* the silence padding that an unforced stop() started has been played:
\* Playing -> Idle
SilenceEnd ==
    /\ player = Playing /\ stopping
    /\ Install(resourceEnds(Cur))

\* the resource's stream errors: the player emits 'error', then goes Idle
StreamError ==
    /\ player # IdleS
    /\ Install(streamError(Cur))

\* /pause
PauseCmd ==
    /\ subscriptions
    /\ player = Playing
    /\ Install(PlayerSetState(Cur, Paused, resource))

\* /skip is dispatched
SkipCmd ==
    /\ subscriptions
    /\ player \in {Playing, Paused, AutoPaused}
    /\ Install(dispatch(Cur, Interaction("skip")))

\* /stop is dispatched
StopCmd ==
    /\ subscriptions
    /\ Install(dispatch(Cur, Interaction("stop")))

\* /play without a song, to unpause
UnpauseCmd ==
    /\ subscriptions
    /\ player = Paused
    /\ Install(playExecuteNoSong(Cur))

\* no Ready connection is subscribed: Playing -> AutoPaused
AutoPause ==
    /\ player = Playing /\ conn # Ready
    /\ Install(autoPause(Cur))

\* a subscribed connection is Ready again: AutoPaused -> Playing
AutoResume ==
    /\ player = AutoPaused /\ conn = Ready
    /\ onStartN < MaxStarts
    /\ Install(PlayerSetState(Cur, Playing, resource))

\* entersState(audioPlayer, Playing, 30_000) rejects: the catch block
IdleTimeout ==
    /\ idleWaits > 0
    /\ Install(idleWaitRejects(Cur))

\* a track that is being retried sets the suppress flag
RetrySuppress ==
    /\ player # IdleS /\ ~wait
    /\ Install(retrySuppress(Cur))

\* the connection proceeds: Signalling -> Connecting -> Ready
ConnAdvance ==
    /\ conn \in {Signalling, Connecting}
    /\ Install(ConnSetState(Cur, IF conn = Signalling THEN Connecting ELSE Ready, 0))

\* the connection drops with WebSocket close code 4014 (moved or kicked); the model
\* follows one pending 5s wait
ConnDisconnect4014 ==
    /\ conn \in {Signalling, Connecting, Ready}
    /\ ~connWait
    /\ Install(ConnSetState(Cur, Disconnected, 4014))

\* the connection drops for any other reason
ConnDisconnectOther ==
    /\ conn \in {Signalling, Connecting, Ready}
    /\ backoffs < MaxBackoffs
    /\ Install(ConnSetState(Cur, Disconnected, 0))

\* the connection recovers by itself (the bot was moved): Disconnected -> Connecting
ConnRecover ==
    /\ conn = Disconnected
    /\ Install(ConnSetState(Cur, Connecting, 0))

\* wait((rejoinAttempts + 1) * 5_000) is over: voiceConnection.rejoin()
RejoinFire ==
    /\ backoffs > 0
    /\ \E adapterOk \in BOOLEAN :
        Install(ConnRejoin([Cur EXCEPT !.backoffs = @ - 1], adapterOk))

\* entersState(voiceConnection, Connecting, 5_000) rejects: destroy(), without a
\* test of the connection's status, so also on a connection destroyed meanwhile.
ConnWaitTimeout ==
    /\ connWait
    /\ Install(ConnDestroy([Cur EXCEPT !.connWait = FALSE], "4014"))

\* entersState(voiceConnection, Ready, 15_000) rejects: the catch block reads the
\* undeclared name VoiceConnectdionStatus, a ReferenceError that ends the handler
\* before destroy(); the finally block clears readyLock.  The error rejects the
\* promise of the handler, nothing handles the rejection and the process exits.
GuardTimeout ==
    /\ readyGuards > 0
    /\ Install([Cur EXCEPT !.readyGuards = @ - 1, !.readyLock = FALSE,
                           !.exited = TRUE])

\* Commands that queue a track at the back, and the registry lookup before them.
Requests ==
    \/ GetOrCreate
    \/ Enqueue

\* A subscription is constructed while the one before it has waits pending, a track
\* in production or in its player or a command that holds it, and what the earlier
\* one does then.
Regeneration ==
    \/ GetOrCreateEarly
    \/ OldIdleTimeout
    \/ OldConnWaitTimeout
    \/ OldProductionSuccess
    \/ OldProductionFailure
    \/ OldBufferReady
    \/ OldBufferFail
    \/ OldTrackEnd
    \/ OldStreamError
    \/ OldAutoPause
    \/ OldRetrySuppress
    \/ OldEnqueue
    \/ OldEnqueueNext
    \/ OldNowCmd
    \/ OldBulkEnqueue
    \/ OldTrackNotFound

\* Commands that end the current track or the session.
Controls ==
    \/ SkipCmd
    \/ StopCmd

\* Commands that change the order or the content of the queue otherwise, or show it.
Reorders ==
    \/ EnqueueNext
    \/ NowCmd
    \/ BulkEnqueue
    \/ ShuffleCmd
    \/ ClearCmd
    \/ SwapCmd
    \/ QueueCmd

\* What the tracks and the audio player do, and the waits of the player's handler.
Playback ==
    \/ ProductionSuccess
    \/ ProductionFailure
    \/ BufferReady
    \/ BufferFail
    \/ TrackEnd
    \/ SilenceEnd
    \/ StreamError
    \/ PauseCmd
    \/ UnpauseCmd
    \/ AutoPause
    \/ AutoResume
    \/ IdleTimeout
    \/ RetrySuppress

\* The connection is established, drops with close code 4014, recovers or is given up.
Connection ==
    \/ ConnAdvance
    \/ ConnDisconnect4014
    \/ ConnRecover
    \/ ConnWaitTimeout
    \/ GuardTimeout

\* The connection drops for another reason and is rejoined after the backoff.
Reconnection ==
    \/ ConnDisconnectOther
    \/ RejoinFire
    \/ GetOrCreateNoAdapter
    \/ MoveCmd

\* The whole program.
Next ==
    \/ Requests
    \/ Controls
    \/ Reorders
    \/ Playback
    \/ Connection
    \/ Reconnection
    \/ Regeneration

Spec == Init /\ [][Next]_vars

\* The program without the backoff-and-rejoin cycle, which changes rejoinAttempts and
\* backoffs only: no handler of the player or of the queue reads either.
NextPlay ==
    \/ Requests
    \/ Controls
    \/ Reorders
    \/ Playback
    \/ Connection

SpecPlay == Init /\ [][NextPlay]_vars

\* The promise of an awaited createAudioResource() settles.
Settles ==
    \/ ProductionSuccess
    \/ ProductionFailure

\* SpecPlay where every awaited production settles and every armed 30 s guard of the
\* player's handler that can still reject does so.
SpecLive ==
    Init /\ [][NextPlay]_vars /\ WF_vars(Settles) /\ WF_vars(IdleTimeout)

\* A Buffering resource becomes readable or ends.
Buffers ==
    \/ BufferReady
    \/ BufferFail

\* SpecLive where, besides, a connection that is being established advances, a
\* Buffering resource settles and the connection's pending 5s and 15s waits run out.
\* No command is ever bound to come.
SpecFair ==
    /\ Init /\ [][NextPlay]_vars
    /\ WF_vars(Settles) /\ WF_vars(IdleTimeout)
    /\ WF_vars(ConnAdvance) /\ WF_vars(Buffers)
    /\ WF_vars(ConnWaitTimeout) /\ WF_vars(GuardTimeout)

\* SpecPlay with enqueue as the only queue mutation a command makes.
NextFifo ==
    \/ Requests
    \/ Controls
    \/ Playback
    \/ Connection

SpecFifo == Init /\ [][NextFifo]_vars

\* Tracks are queued and played, the bot is kicked or left idle, and a subscription
\* is constructed while the one torn down before it has waits pending, a track in
\* production or in its player, or a /play that is yet to enqueue on it.
NextRegen ==
    \/ Requests
    \/ ProductionSuccess
    \/ ProductionFailure
    \/ BufferReady
    \/ BufferFail
    \/ TrackEnd
    \/ StreamError
    \/ IdleTimeout
    \/ ConnAdvance
    \/ ConnDisconnect4014
    \/ ConnWaitTimeout
    \/ GetOrCreateEarly
    \/ OldIdleTimeout
    \/ OldConnWaitTimeout
    \/ OldProductionSuccess
    \/ OldProductionFailure
    \/ OldBufferReady
    \/ OldBufferFail
    \/ OldTrackEnd
    \/ OldStreamError
    \/ OldEnqueue
    \/ OldTrackNotFound

SpecRegen == Init /\ [][NextRegen]_vars

\* SpecFifo with /next and /now: tracks are queued at the back or at the front.
NextFront ==
    \/ Requests
    \/ Controls
    \/ EnqueueNext
    \/ NowCmd
    \/ Playback
    \/ Connection

SpecFront == Init /\ [][NextFront]_vars

\* Playlists are queued and the queue is shuffled while tracks are produced and
\* played; bulkEnqueue is not gated on the connection.
NextShuffle ==
    \/ GetOrCreate
    \/ BulkEnqueue
    \/ ShuffleCmd
    \/ ProductionSuccess
    \/ ProductionFailure
    \/ BufferReady
    \/ BufferFail
    \/ TrackEnd

SpecShuffle == Init /\ [][NextShuffle]_vars

\* The connection's life while nothing is queued: the player stays Idle.
NextConn ==
    \/ GetOrCreate
    \/ Connection
    \/ Reconnection

SpecConn == Init /\ [][NextConn]_vars

\* ======================================================================= claims
Range(q) == {q[k] : k \in DOMAIN q}

Increasing(q) == \A i, j \in DOMAIN q : i < j => q[i] < q[j]

\* C1: at most one track production is in flight at any time, a production in flight
\* holds queueLock, and a processQueue call made while queueLock is held pops nothing
\* and starts no production (it only clears the wait flag).
C1_OneProduction ==
    /\ Cardinality(producing) <= 1
    /\ producing # {} => queueLock
    /\ queueLock => processQueue(Cur) = [Cur EXCEPT !.wait = FALSE]

\* One of three tracks is in production and the other two wait in the queue of the
\* Idle player.  No single call queues three tracks, so a later call's processQueue
\* ran while the production was in flight and found the lock held.
C1_Witness ==
    /\ producing # {} /\ Len(queue) = 2 /\ Holes(queue) = 0 /\ nextId = 4
    /\ player = IdleS /\ ~destroyed

\* C2: with enqueue as the only queue mutation, tracks are dequeued in the order they
\* were enqueued (track ids count the enqueue calls), without a gap while the
\* subscription lives, and the tracks handed to the player are a subsequence of the
\* dequeued ones: a later track is never played before an earlier one.
C2_Fifo ==
    /\ Increasing(popped)
    /\ Increasing(played)
    /\ Range(played) \subseteq Range(popped)
    /\ ~destroyed => \A i \in DOMAIN popped : popped[i] = i

\* Three tracks were dequeued, the second one failed in production and the first and
\* the third were handed to the player.
C2_Witness ==
    /\ popped = <<1, 2, 3>> /\ played = <<1, 3>> /\ 2 \in prodFailed

\* C3: when the production of track A fails, A's onError has been called once and
\* its onFinish never, A is neither queued nor in production nor ever handed to the
\* player, now and at every later step; and if a track B is at the front of the queue
\* at the failure, B is taken into production in the same step, so that B is the next
\* track handed to the player (only a track in production is handed to it).
C3_FailedTrackSkip ==
    [][/\ \A a \in Tracks :
            a \in prodFailed' =>
                /\ onErrorN'[a] = 1 /\ onFinishN'[a] = 0
                /\ a \notin producing'
                /\ a \notin Range(queue')
                /\ a \notin Range(played')
       /\ \A a \in producing :
            (a \in prodFailed' /\ queue # <<>> /\ Head(queue) # Undefined) =>
                /\ producing' = {Head(queue)}
                /\ queue' = Tail(queue)
       /\ Len(played') > Len(played) =>
            \E b \in producing : played' = Append(played, b) /\ b \notin producing'
      ]_vars

\* Track A failed in production and the track dequeued right after it was handed to
\* the player as the next one.
C3_Witness ==
    \E i \in DOMAIN popped :
        /\ popped[i] \in prodFailed
        /\ i + 1 \in DOMAIN popped
        /\ played # <<>> /\ played[Len(played)] = popped[i + 1]

\* C4: a second getOrCreateSubscription call for the key, with no teardown in
\* between, constructs nothing and returns the subscription the first call returned,
\* unchanged; the key is registered after either call.  This holds whether or not
\* the adapter can send the join payload at either call.
C4_RegistryUnique ==
    \A adapter1, adapter2 \in BOOLEAN :
        LET first == getOrCreateSubscription(Cur, adapter1)
            second == getOrCreateSubscription(first.st, adapter2)
        IN  /\ first.st.subscriptions
            /\ ~second.constructed
            /\ second.st = first.st
            /\ subscriptions => ~first.constructed /\ first.st = Cur

\* A registered subscription that has already handed a track to its player is looked
\* up again and returned as it is.
C4_Witness ==
    /\ subscriptions /\ played # <<>> /\ getOrCreateSubscription(Cur, TRUE).st = Cur

\* C5: in every state of a constructed subscription, stop() leaves the queue empty,
\* the player Idle, the destroyed flag set, the connection Destroyed and the key
\* unregistered, and sends no inactivity notification; a second stop() changes
\* nothing but the count of its runs (it calls destroy() no more), and so does the
\* connection's Destroyed event after a stop().
C5_StopIdempotent ==
    inst =>
        LET once == stop(Cur)
        IN  /\ once.queue = <<>> /\ once.player = IdleS /\ once.destroyed
            /\ once.conn = Destroyed /\ ~once.subscriptions
            /\ once.inactivityN = inactivityN
            /\ stop(once) = [once EXCEPT !.stopRuns = @ + 1]
            /\ ConnStateChange(once, Destroyed) = [once EXCEPT !.stopRuns = @ + 1]

\* The subscription was stopped while its player held its only track, which neither
\* ended nor failed: the track got its onFinish from the forced Idle transition, and
\* a second stop() leaves that state as it is.
C5_Witness ==
    /\ destroyed /\ conn = Destroyed /\ player = IdleS
    /\ nextId = 2 /\ played = <<1>>
    /\ 1 \notin (endedOk \cup endedErr) /\ onFinishN[1] = 1
    /\ stop(Cur) = [Cur EXCEPT !.stopRuns = @ + 1]

\* C6: the sink receives exactly one inactivity notification: never more than one,
\* and once it has been sent the connection is destroyed and the subscription is
\* torn down and unregistered.
C6_OneInactivityNotification ==
    /\ inactivityN <= 1
    /\ inactivityN >= 1 => conn = Destroyed /\ destroyed /\ ~subscriptions

\* C7: the handler destroys the connection for exhausted reconnection only when 5
\* rejoin attempts have been made since the connection was last Ready; every
\* Disconnected state (not close code 4014) below that count has its rejoin pending
\* behind a backoff wait; and no connection stays Disconnected, undestroyed, with 5
\* attempts made.
C7_ReconnectionBound ==
    /\ destroyedBy = "exhausted" => rejoinAttempts >= MaxRejoinAttempts
    /\ (conn = Disconnected /\ closeCode = 0) =>
           rejoinAttempts < MaxRejoinAttempts /\ backoffs >= 1

\* The connection was destroyed by the Disconnected event that followed the 5th
\* rejoin attempt.
C7_Witness ==
    /\ destroyedBy = "exhausted" /\ rejoinAttempts = MaxRejoinAttempts
    /\ conn = Destroyed /\ destroyed /\ ~subscriptions

\* C8: a connection that is Connecting or Signalling has its 15s guard pending: a
\* guard that expired before Ready was reached has destroyed the connection.
C8_GuardDestroys ==
    (inst /\ conn \in {Connecting, Signalling}) => readyLock /\ readyGuards = 1

\* C9: every teardown (reconnection exhausted, 4014 recovery failed, idle timeout)
\* comes with exactly one notification to the sink.
C9_TeardownNotifiesOnce ==
    destroyedBy \in {"exhausted", "4014", "idle"} => inactivityN = 1

\* C10: a track whose playback attempt has ended (it was handed to the player and is
\* not the player's resource any more) got onFinish exactly once if no error was
\* raised on its resource, and never, with onError called once, if one was; a track
\* whose attempt has not ended got no onFinish.
C10_FinishOnceUnlessError ==
    \A t \in Tracks :
        IF t \in Range(played) /\ resource # t
        THEN IF t \in endedErr
             THEN onFinishN[t] = 0 /\ onErrorN[t] = 1
             ELSE onFinishN[t] = 1 /\ onErrorN[t] = 0
        ELSE onFinishN[t] = 0

\* One track's attempt ended by an error, with onError and without onFinish, and
\* another one's ended without an error, with onFinish.
C10_Witness ==
    \E t, u \in Tracks :
        /\ t \in endedErr /\ onErrorN[t] = 1 /\ onFinishN[t] = 0 /\ resource # t
        /\ u \in endedOk /\ onFinishN[u] = 1 /\ resource # u

\* C11: onStart is called exactly once per play attempt: for the resource the
\* player holds it has been called once in Playing, Paused and AutoPaused (states
\* entered through Playing only), whatever the number of entries into Playing, and
\* not at all while the resource is buffering or when the player holds none.
C11_StartOnce ==
    /\ onStartN <= 1
    /\ player \in {Playing, Paused, AutoPaused} => onStartN = 1
    /\ player \in {IdleS, Buffering} => onStartN = 0

\* C12: enqueueNext(t) with a fresh track t, applied in any state of a constructed
\* subscription: when the player is busy or the lock is held nothing is dequeued and
\* t is at index 0 of a queue one longer than before; when the player is Idle and the
\* lock is free t is the track that is popped and taken into production, and the
\* queue keeps the tracks it had.
C12_EnqueueNextFront ==
    (inst /\ nextId <= MaxTracks) =>
        LET t == nextId
            after == enqueueNext([Cur EXCEPT !.nextId = @ + 1], t)
        IN  IF queueLock \/ player # IdleS
            THEN /\ Len(after.queue) = Len(queue) + 1
                 /\ after.queue[1] = t
                 /\ after.popped = popped /\ after.producing = producing
            ELSE /\ after.popped = Append(popped, t)
                 /\ after.producing = {t}
                 /\ Len(after.queue) = Len(queue)
                 /\ \A u \in Tracks :
                        Cardinality({k \in DOMAIN after.queue : after.queue[k] = u})
                            = Cardinality({k \in DOMAIN queue : queue[k] = u})

\* Track 1 is held by the player, track 2 was queued and track 3, requested by /next
\* after it, is at index 0.
C12_Witness ==
    /\ queue = <<3, 2>> /\ played = <<1>> /\ resource = 1 /\ player # IdleS

\* the one-to-one maps of 1..n onto itself
Bijections(n) ==
    {f \in [1..n -> 1..n] : \A i, j \in 1..n : i # j => f[i] # f[j]}

\* every reordering of q
Perms(q) ==
    {[k \in 1..Len(q) |-> q[f[k]]] : f \in Bijections(Len(q))}

\* every result of shuffle() on q, over the values Math.random() can give
ShuffleOutcomes(q) ==
    {shuffle(q, r) : r \in ShuffleChoices(Len(q))}

\* C13: for the queue of every reachable state and for the queues <<1..n>> of every
\* length up to MaxTracks, the results of shuffle() over all random choices are
\* exactly the reorderings of the queue: each result has the same length and the same
\* entries, and each reordering is the result of some choice.
C13_ShufflePermutation ==
    \A q \in {queue} \cup {[k \in 1..n |-> k] : n \in 0..MaxTracks} :
        ShuffleOutcomes(q) = Perms(q)

\* Tracks 2 and 3 were queued in this order behind track 1 and the queue now holds
\* them in the other order: a shuffle has reordered it.
C13_Witness ==
    /\ queue = <<3, 2>> /\ played = <<1>> /\ nextId = 4

\* C14: nowPlaying() returns the track of the player's resource when the player is
\* not Idle and returns none (0), without failing, when the player is Idle.
C14_NowPlayingOrNone ==
    inst => nowPlaying(Cur) = (IF player = IdleS THEN 0 ELSE resource)

\* C15 as stated: the body of stop() runs one time per subscription for every
\* trigger, an explicit stop() of a live subscription included.
C15_StopBodyOnce ==
    /\ destroyed => stopRuns = 1
    /\ (inst /\ ~destroyed) => stopRuns = 0 /\ stop(Cur).stopRuns = 1

\* C15, amended: the entry of the connection into Destroyed runs stop() in the same
\* step and exactly once, whatever called destroy(): the body has run once exactly
\* when the connection is Destroyed, and then the destroyed flag is set.  An explicit
\* stop() of a live subscription runs the body twice, for the call and for the
\* Destroyed event of its own destroy(), and ends in the state the event alone leads to.
C15_TeardownOncePerDestroy ==
    /\ stopRuns = (IF inst /\ conn = Destroyed THEN 1 ELSE 0)
    /\ destroyed <=> (inst /\ conn = Destroyed)
    /\ (inst /\ ~destroyed) =>
           /\ \A by \in {"4014", "exhausted", "idle", "stop"} :
                  LET after == ConnDestroy(Cur, by)
                  IN  after.stopRuns = 1 /\ after.destroyed /\ ~after.subscriptions
           /\ stop(Cur) = [ConnDestroy(Cur, "stop") EXCEPT !.stopRuns = 2]

\* The idle timeout destroyed the connection of a subscription that had played a
\* track, and stop() has run once.
C15_Witness ==
    /\ destroyedBy = "idle" /\ conn = Destroyed /\ destroyed /\ stopRuns = 1
    /\ played # <<>>

\* C16: /play without a song on a registered subscription whose player is Paused
\* leaves the player Playing, with the same resource and the same queue.
C16_PlayUnpauses ==
    (subscriptions /\ player = Paused) =>
        LET after == playExecuteNoSong(Cur)
        IN  after.player = Playing /\ after.resource = resource /\ after.queue = queue

\* C17: on a registered subscription, dispatching 'stop' tears the subscription
\* down (queue empty, connection Destroyed, destroyed set, key unregistered), and
\* dispatching 'skip' ends the current track only: the command starts the silence
\* padding of the resource a Playing player holds and changes nothing else, and when
\* the padding has been played the player leaves the skipped resource, the
\* subscription stays registered and undestroyed with its connection as it was, and
\* the queue keeps its tracks but the one taken into production.
C17_StopAndSkip ==
    subscriptions =>
        LET stopped == dispatch(Cur, Interaction("stop"))
            skipping == dispatch(Cur, Interaction("skip"))
            skipped == resourceEnds(skipping)
        IN  /\ stopped.queue = <<>> /\ stopped.conn = Destroyed
            /\ stopped.destroyed /\ ~stopped.subscriptions
            /\ player = Playing =>
                  /\ skipping = [Cur EXCEPT !.stopping = TRUE]
                  /\ skipped.resource # resource
                  /\ skipped.subscriptions /\ ~skipped.destroyed
                  /\ skipped.conn = conn
                  /\ Range(skipped.queue) \cup skipped.producing
                         = Range(queue) \cup producing

\* C18: on a registered subscription whose queue has no undefined entry, the swap
\* command changes nothing (it only replies) for every pair of numbers with one
\* below 0, one at or beyond the queue's length, or both equal; for every other pair
\* the queue afterwards has the same length, the same tracks and no undefined entry.
\* The numbers are the integers from -1 to one beyond the length, and 0.5.
C18_SwapValidated ==
    (subscriptions /\ Holes(queue) = 0 /\ extra = Undefined) =>
        \A option1, option2 \in {Index(k) : k \in (0 - 1)..(Len(queue) + 1)} \cup {Half} :
            LET after == swapExecute(Cur, option1, option2)
            IN  IF \/ option1.twice < 0 \/ option2.twice < 0
                   \/ option1.twice >= 2 * Len(queue) \/ option2.twice >= 2 * Len(queue)
                   \/ option1.twice = option2.twice
                THEN after = Cur
                ELSE /\ Len(after.queue) = Len(queue)
                     /\ Range(after.queue) = Range(queue)
                     /\ Holes(after.queue) = 0

\* C19: every call of processQueue, a call that takes nothing included, leaves the
\* wait flag clear; a player that goes from a non-Idle state to Idle with the flag
\* clear has processQueue called (the flag stays clear, and a free lock with a
\* non-empty queue means the head is taken and the lock set); with the flag set
\* the transition takes nothing: queue, lock and productions stay, and the flag stays
\* set for the next processQueue call to clear.
C19_SuppressScoped ==
    inst =>
        /\ ~processQueue(Cur).wait
        /\ player # IdleS =>
              LET idle == PlayerSetState(Cur, IdleS, 0)
              IN  /\ idle.player = IdleS
                  /\ ~wait =>
                        /\ ~idle.wait
                        /\ (~queueLock /\ Len(queue) > 0) =>
                              /\ idle.queueLock
                              /\ idle.queue = Tail(queue)
                              /\ Head(queue) # Undefined =>
                                    /\ idle.producing = producing \cup {Head(queue)}
                                    /\ idle.popped = Append(popped, Head(queue))
                  /\ wait =>
                        /\ idle.wait
                        /\ idle.queue = queue
                        /\ idle.queueLock = queueLock
                        /\ idle.producing = producing
                        /\ ~processQueue(idle).wait

\* The player went Idle while the flag was set: the queue was not advanced, and the
\* flag is still set though tracks wait behind a free lock.
C19_Witness ==
    /\ ~destroyed /\ player = IdleS /\ wait
    /\ ~queueLock /\ Len(queue) = 2 /\ Holes(queue) = 0
    /\ producing = {}

\* C20: while a subscription is not destroyed, a held queueLock has a production
\* in flight behind it; and a state with a non-empty queue, an Idle player and a
\* clear wait flag is followed by one where the player holds a track or the queue
\* is empty.
C20_ForwardProgress ==
    /\ []((inst /\ ~destroyed /\ queueLock) => producing # {})
    /\ (inst /\ ~destroyed /\ Len(queue) > 0 /\ player = IdleS /\ ~wait)
           ~> (player # IdleS \/ Len(queue) = 0)

\* C21: the handler's answer to Disconnected with close code 4014 is the 5s wait for
\* Connecting and no rejoin (no backoff is started, the attempt count stays); the
\* wait ends only with Connecting reached, and then nothing is destroyed, or, when
\* it runs out, with the connection destroyed (a step that constructs the next
\* subscription ends no wait).  Its answer to Disconnected for another reason with
\* fewer than 5 attempts made is a backoff and no destroy, and no connection is
\* destroyed for exhausted attempts below 5.
C21_DisconnectPolicy ==
    /\ [](/\ (inst /\ conn \in {Signalling, Connecting, Ready}) =>
                LET moved == ConnSetState(Cur, Disconnected, 4014)
                    other == ConnSetState(Cur, Disconnected, 0)
                IN  /\ moved.conn = Disconnected /\ moved.connWait
                    /\ moved.backoffs = backoffs
                    /\ moved.rejoinAttempts = rejoinAttempts
                    /\ rejoinAttempts < MaxRejoinAttempts =>
                          /\ other.conn = Disconnected /\ ~other.destroyed
                          /\ other.backoffs = backoffs + 1
                          /\ other.connWait = connWait
          /\ connWait => conn # Connecting
          /\ destroyedBy = "exhausted" => rejoinAttempts >= MaxRejoinAttempts)
    /\ [][(connWait /\ ~connWait' /\ ~(~subscriptions /\ subscriptions')) =>
              \/ conn' = Connecting /\ ~destroyed' /\ subscriptions'
              \/ conn' = Destroyed /\ destroyed' /\ ~subscriptions']_vars

\* A connection that had been Ready dropped with close code 4014, saw no Connecting
\* for 5s and was destroyed, with no rejoin attempt made.
C21_Witness ==
    /\ destroyedBy = "4014" /\ conn = Destroyed /\ wasReady
    /\ rejoinAttempts = 0 /\ destroyed /\ ~subscriptions

\* C22: with queueLock held, the player not Idle or the queue empty, processQueue
\* changes nothing but the wait flag, which it clears: queue, queueLock, player
\* status and resource, productions and the callback counts all stay.
C22_ProcessQueueNoop ==
    (inst /\ (queueLock \/ player # IdleS \/ Len(queue) = 0)) =>
        processQueue(Cur) = [Cur EXCEPT !.wait = FALSE]

\* Tracks 2 and 3 were enqueued while track 1 was playing: both calls of processQueue
\* took nothing, the lock is free and the tracks wait in order.
C22_Witness ==
    /\ player = Playing /\ resource = 1 /\ queue = <<2, 3>>
    /\ ~queueLock /\ producing = {} /\ popped = <<1>>
    /\ processQueue(Cur) = Cur

\* C23: at most one 15s readiness guard is pending, and one is pending exactly while
\* readyLock is set; a Connecting or Signalling transition that finds readyLock set
\* arms no guard, one that finds it clear arms one; and every exit of a guard (Ready
\* reached or the window elapsed) leaves readyLock clear.
C23_OneReadyGuard ==
    /\ [](/\ readyGuards <= 1
          /\ readyLock <=> readyGuards = 1
          /\ (inst /\ conn # Destroyed) =>
                \A status \in {Connecting, Signalling} :
                    LET after == ConnSetState(Cur, status, 0)
                    IN  /\ after.readyLock
                        /\ after.readyGuards = 1)
    /\ [][readyGuards' < readyGuards => ~readyLock' /\ readyGuards' = 0]_vars

\* A guard is pending on a connection that has been Ready before: the first guard
\* ended when Ready was reached, and a later transition armed this one.
C23_Witness ==
    /\ wasReady /\ conn \in {Connecting, Signalling}
    /\ readyLock /\ readyGuards = 1 /\ ~destroyed

\* C24: enqueueNext(t) with a fresh track t, when nothing is dequeued (the lock is
\* held or the player is busy): an empty queue becomes [t]; a queue [q0, ..., q(n-1)]
\* becomes [t, q1, ..., q(n-1), q0].
C24_AppendThenSwap ==
    (inst /\ (queueLock \/ player # IdleS)) =>
        LET n == Len(queue)
            after == enqueueNext(Cur, nextId).queue
        IN  after = IF n = 0
                    THEN <<nextId>>
                    ELSE <<nextId>> \o SubSeq(queue, 2, n) \o <<queue[1]>>

\* Track 1 is playing and tracks 2 and 3 are queued in that order: enqueueNext of a
\* fourth track puts it first and sends track 2 behind track 3.
C24_Witness ==
    /\ player = Playing /\ resource = 1 /\ queue = <<2, 3>> /\ ~queueLock
    /\ enqueueNext(Cur, nextId).queue = <<nextId, 3, 2>>

\* C25: once stop() has run on the subscription, queueLock is held, the player is
\* Idle with no resource, and no track is in the queue or handed to the player
\* afterwards.
C25_StoppedForGood ==
    stopRuns >= 1 =>
        /\ queueLock
        /\ player = IdleS /\ resource = 0

\* C26: a production is awaited only while the player is Idle, and every step that
\* hands a track to the player starts from an Idle player: play(resource) never
\* replaces a resource the player holds.
C26_PlayOnlyWhenIdle ==
    /\ [](producing # {} => player = IdleS /\ resource = 0)
    /\ [][Len(played') > Len(played) =>
              /\ player = IdleS /\ resource = 0
              /\ player' = Buffering /\ resource' = played'[Len(played')]]_vars

\* Track 3 was requested by /now while track 1 was held by the player and track 2 was
\* queued: track 1 was stopped, and track 3 was handed to the player once it was Idle.
C26_Witness ==
    /\ played = <<1, 3>> /\ queue = <<2>>
    /\ player = Buffering /\ resource = 3
    /\ 1 \notin (endedOk \cup endedErr) /\ onFinishN[1] = 1

\* C27: between handlers, a registered subscription is live (constructed, destroyed
\* flag clear, connection not Destroyed); a subscription whose connection is
\* Destroyed is not registered, and the next getOrCreateSubscription for the key
\* constructs a new one, registered and live.
C27_RegistryLive ==
    /\ subscriptions => inst /\ ~destroyed /\ conn # Destroyed
    /\ (inst /\ conn = Destroyed) =>
           /\ ~subscriptions /\ destroyed
           /\ \A adapterOk \in BOOLEAN :
                  LET next == getOrCreateSubscription(Cur, adapterOk)
                  IN  /\ next.constructed
                      /\ next.st.subscriptions /\ ~next.st.destroyed
                      /\ next.st.conn = (IF adapterOk THEN Signalling ELSE Disconnected)
                      /\ next.st.queue = <<>>

\* The idle timeout destroyed the connection of a subscription that had played a
\* track: it is torn down and unregistered, and the next lookup constructs anew.
C27_Witness ==
    /\ inst /\ conn = Destroyed /\ destroyedBy = "idle" /\ played # <<>>
    /\ ~subscriptions /\ getOrCreateSubscription(Cur, TRUE).constructed

\* C28: a registered subscription is eventually one whose player holds a track, or is
\* torn down and unregistered, unless the process exits first.
C28_NoIdleLinger ==
    subscriptions ~> (player # IdleS \/ (destroyed /\ ~subscriptions) \/ exited)

\* C29: no step taken after the subscription was torn down and unregistered sends an
\* inactivity notification, be it the subscription made last for the key or one made
\* before it (the count of notifications sent by earlier subscriptions never grows),
\* and the idle timers of one subscription send at most one between them.
C29_SilentAfterTeardown ==
    /\ [][(destroyed /\ ~subscriptions) => inactivityN' <= inactivityN]_vars
    /\ [][oldInactivityN' <= oldInactivityN]_vars
    /\ [](inactivityN <= 1)

====
